---- MODULE Spec2Model ----
(***************************************************************************)
(* The MCQ processing service of src/src/mcq/main.py: the Flask routes     *)
(* GET /run/<script_id> and POST /run, the workflow run_mcq_pipeline ->    *)
(* process_script_pages, the helpers extract_token_usage and               *)
(* serialize_crew_output, and the remote compare-text store the workflow   *)
(* reads and writes.                                                       *)
(*                                                                         *)
(* Python values are encoded with one shape per kind of value, because TLC *)
(* compares only values of like shape:                                     *)
(*   - an optional integer is a sequence of length 0 (missing) or 1;       *)
(*   - a usage value (None, a dict of token counts, a scalar, or "the      *)
(*     attribute / key does not exist") is a record [kind, keys, total,    *)
(*     prompt, completion];                                                *)
(*   - a pipeline outcome (CrewOutput) is a record with one field per      *)
(*     attribute the code probes with hasattr.                             *)
(***************************************************************************)
EXTENDS Integers, Sequences, FiniteSets, TLC

\* Bounds of the model.
MaxPages == 2      \* longest list the OCR endpoint returns
MaxPageNo == 2     \* largest page_number of a fetched record
MaxScriptId == 1   \* largest script id a client asks for (0 is asked for too)

VARIABLES
  \* ---- the page path of one run, alone (SpecPages)
  script_data,     \* the list fetch_ocr_data returned
  pages_pc,        \* "fetched" | "done"
  kickoff_calls,   \* the inputs of every Mcq().crew().kickoff call, in order
  pages_error,     \* "" or the failure of the page path
  \* ---- the result normalizer, alone (SpecUsage)
  crew_output,     \* the outcome handed to extract_token_usage
  usage_pc,        \* "call" | "returned"
  extracted,       \* what extract_token_usage returned
  \* ---- the result serializer, alone (SpecSerialize)
  serialize_pc,    \* "call" | "returned"
  serialized       \* what serialize_crew_output returned

pure_vars == <<script_data, pages_pc, kickoff_calls, pages_error,
               crew_output, usage_pc, extracted, serialize_pc, serialized>>

VARIABLES
  \* ---- the service: two request handlers and the remote compare-text store (Spec)
  store,           \* the CompareText records of the remote store, in creation order
  pc,              \* per handler: "idle" | "fetch" | "kickoff" | "lookup" | "write" | "done"
  request,         \* per handler: the HTTP request it serves
  local,           \* per handler: the locals of run_mcq_pipeline / process_script_pages
  kickoffs,        \* per handler: how many times it invoked the pipeline
  existed,         \* per handler: whether the store held a record of its script at lookup
  writes,          \* per handler: the POST / PUT requests it sent to the store
  resp             \* per handler: the HTTP response

service_vars == <<store, pc, request, local, kickoffs, existed, writes, resp>>

vars == <<pure_vars, service_vars>>

(***************************************************************************)
(* Pages: ScriptRecord, the sort of run_mcq_pipeline and the filter of     *)
(* process_script_pages.                                                   *)
(***************************************************************************)

\* ocr_json of a fetched record: "None" is a record without the key (what
\* record.get('ocr_json') gives), "" an empty payload; both are falsy.
OcrPayloads == {"None", "", "ocr_a", "ocr_b"}

\* page_number: <<>> when the record has no such key, <<n>> otherwise.
PageNumbers == {<<>>} \cup {<<n>> : n \in 1..MaxPageNo}

ScriptRecords == [page_number : PageNumbers, ocr_json : OcrPayloads]

RECURSIVE SeqsUpTo(_, _)
SeqsUpTo(S, n) ==
  IF n = 0 THEN {<<>>}
  ELSE LET shorter == SeqsUpTo(S, n - 1)
       IN shorter \cup {Append(s, x) : s \in {t \in shorter : Len(t) = n - 1}, x \in S}

\* What GET /ocr/ can answer with when it answers with a list.
OcrLists == SeqsUpTo(ScriptRecords, MaxPages)

\* key=lambda x: x.get('page_number', 0)
sort_key(record) ==
  IF record.page_number = <<>> THEN 0 ELSE record.page_number[1]

\* One step of a stable sort: x goes after every element whose key is not larger.
insert_stable(sorted, x) ==
  LET k == Cardinality({i \in 1..Len(sorted) : sort_key(sorted[i]) <= sort_key(x)})
  IN SubSeq(sorted, 1, k) \o <<x>> \o SubSeq(sorted, k + 1, Len(sorted))

\* A faulty step: x goes before the elements of equal key.
insert_unstable(sorted, x) ==
  LET k == Cardinality({i \in 1..Len(sorted) : sort_key(sorted[i]) < sort_key(x)})
  IN SubSeq(sorted, 1, k) \o <<x>> \o SubSeq(sorted, k + 1, Len(sorted))

RECURSIVE sort_with(_, _)
sort_with(s, unstable) ==
  IF s = <<>> THEN <<>>
  ELSE LET front == sort_with(SubSeq(s, 1, Len(s) - 1), unstable)
       IN IF unstable THEN insert_unstable(front, s[Len(s)])
          ELSE insert_stable(front, s[Len(s)])

\* A faulty sort that breaks ties the wrong way round.
sort_pages_unstable(data) == sort_with(data, TRUE)

\* script_data.sort(key=...): list.sort is stable.
sort_pages(data) == sort_with(data, FALSE)

\* `not ocr_json`
is_falsy_ocr(ocr_json) == ocr_json \in {"None", ""}

\* page_data = {'page_number': record.get('page_number'), 'ocr_json': ocr_json}
page_data(record) ==
  [page_number |-> record.page_number, ocr_json |-> record.ocr_json]

RECURSIVE collect_pages(_)
\* The loop of process_script_pages building all_pages_ocr.
collect_pages(data) ==
  IF data = <<>> THEN <<>>
  ELSE LET rest == collect_pages(Tail(data))
       IN IF is_falsy_ocr(Head(data).ocr_json) THEN rest
          ELSE <<page_data(Head(data))>> \o rest

\* inputs = {"OCR_JSON": all_pages_ocr}; Mcq().crew().kickoff(inputs=inputs):
\* the calls made for a non-empty all_pages_ocr.
kickoff_inputs(all_pages_ocr) == <<all_pages_ocr>>

\* A faulty guard that lets an empty batch through.
no_valid_ocr_never(all_pages_ocr) == FALSE

\* `if not all_pages_ocr: raise Exception("No valid OCR data found in any page")`
no_valid_ocr(all_pages_ocr) == all_pages_ocr = <<>>

\* run_mcq_pipeline from the fetched list to the pipeline call:
\* the empty check, the sort, the filter, the no-data check, the call.
page_path(data) ==
  IF data = <<>>
  THEN [error |-> "No OCR data found", calls |-> <<>>, total |-> 0, pages |-> 0]
  ELSE LET sorted == sort_pages(data)
           all_pages_ocr == collect_pages(sorted)
       IN IF no_valid_ocr(all_pages_ocr)
          THEN [error |-> "No valid OCR data found in any page", calls |-> <<>>,
                total |-> Len(sorted), pages |-> 0]
          ELSE [error |-> "", calls |-> kickoff_inputs(all_pages_ocr),
                total |-> Len(sorted), pages |-> Len(all_pages_ocr)]

(***************************************************************************)
(* Usage values and pipeline outcomes.                                     *)
(***************************************************************************)

UsageKeys == {"total_tokens", "prompt_tokens", "completion_tokens"}

UVal(kind, keys, t, p, c) ==
  [kind |-> kind, keys |-> keys, total |-> t, prompt |-> p, completion |-> c]

NoAttr == UVal("absent", {}, 0, 0, 0)       \* the attribute or key does not exist
NoneValue == UVal("None", {}, 0, 0, 0)      \* Python None
EmptyDict == UVal("dict", {}, 0, 0, 0)      \* {}
UsageDict(t, p, c) == UVal("dict", UsageKeys, t, p, c)
Scalar(n) == UVal("int", {}, n, 0, 0)       \* a bare token count
\* a dict whose total_tokens is None: adding it to an int raises TypeError
BadDict == UVal("dict_bad", {"total_tokens"}, 0, 0, 0)

\* `if token_usage:`
truthy(v) ==
  CASE v.kind = "dict" -> v.keys # {}
    [] v.kind = "dict_bad" -> TRUE
    [] v.kind = "int" -> v.total # 0
    [] OTHER -> FALSE

\* task_tokens.get(key, 0)
dict_get(v, key) ==
  IF key \notin v.keys THEN 0
  ELSE CASE key = "total_tokens" -> v.total
         [] key = "prompt_tokens" -> v.prompt
         [] OTHER -> v.completion

\* The dictionary crew_output.to_dict() returns, as far as the code reads it.
DictView(present, tu, um) ==
  [present |-> present, token_usage |-> tu, usage_metrics |-> um]
NoDictView == DictView(FALSE, NoAttr, NoAttr)

\* crew_output.tasks_output: no attribute, None, or a list of task outputs,
\* each one its token_usage (NoAttr when the task output has none).
TaskList(kind, tasks) == [kind |-> kind, tasks |-> tasks]
NoTasks == TaskList("absent", <<>>)

\* crew_output.crew: no attribute, or an object with or without usage_metrics.
CrewRef(present, um) == [present |-> present, usage_metrics |-> um]
NoCrew == CrewRef(FALSE, NoAttr)

\* crew_output.raw: no attribute, or a text ("" when empty).
RawView(present, text) == [present |-> present, text |-> text]

\* crew_output.result: no attribute, or a text.
ResultView(present, text) == [present |-> present, text |-> text]
NoResult == ResultView(FALSE, "")

\* An outcome, as far as the code probes it; repr is what str(crew_output) gives.
Outcome(tu, um, td, tasks, crew, u1, u2, raw, result, repr) ==
  [token_usage |-> tu, usage_metrics |-> um, to_dict |-> td,
   tasks_output |-> tasks, crew |-> crew, _usage |-> u1, usage |-> u2,
   raw |-> raw, result |-> result, repr |-> repr]

\* The outcomes extract_token_usage is run on.
ProbedOutcomes ==
  { Outcome(tu, um, td, tasks, crew, u1, u2, RawView(FALSE, ""), NoResult,
            "CrewOutput") :
      tu \in {NoAttr, NoneValue, EmptyDict, UsageDict(30, 20, 10)},
      um \in {NoAttr, NoneValue, EmptyDict, UsageDict(31, 21, 10)},
      td \in {NoDictView,
              DictView(TRUE, NoAttr, NoAttr),
              DictView(TRUE, NoneValue, NoAttr),
              DictView(TRUE, UsageDict(32, 22, 10), NoAttr),
              DictView(TRUE, NoAttr, UsageDict(33, 23, 10)),
              DictView(TRUE, EmptyDict, UsageDict(33, 23, 10))},
      tasks \in {NoTasks,
                 TaskList("None", <<>>),
                 TaskList("list", <<>>),
                 TaskList("list", <<UsageDict(3, 2, 1)>>),
                 TaskList("list", <<UsageDict(3, 2, 1),
                                    UVal("dict", {"total_tokens"}, 4, 0, 0)>>),
                 TaskList("list", <<NoAttr, Scalar(9)>>),
                 TaskList("list", <<UsageDict(3, 2, 1), BadDict>>)},
      crew \in {NoCrew, CrewRef(TRUE, NoAttr), CrewRef(TRUE, NoneValue),
                CrewRef(TRUE, UsageDict(35, 25, 10))},
      u1 \in {NoAttr, Scalar(0), Scalar(7)},
      u2 \in {NoAttr, Scalar(0), Scalar(8)} }

\* hasattr(crew_output, name) for the usage attributes
hasattr(v) == v.kind # "absent"

RECURSIVE sum_tasks(_, _)
\* The loop of method 4: the sum of key over the task outputs that have a dict
\* token_usage.
sum_tasks(tasks, key) ==
  IF tasks = <<>> THEN 0
  ELSE LET t == Head(tasks)
       IN (IF t.kind = "dict" THEN dict_get(t, key) ELSE 0)
          + sum_tasks(Tail(tasks), key)

\* Whether the loop of method 4 raises: tasks_output is not iterable, or a
\* count is not a number.
tasks_raise(tl) ==
  \/ tl.kind = "None"
  \/ \E i \in 1..Len(tl.tasks) : tl.tasks[i].kind = "dict_bad"

\* Method 4: the summed dict when total_tokens > 0, else token_usage stays None.
tasks_usage(tl) ==
  LET total == sum_tasks(tl.tasks, "total_tokens")
  IN IF total > 0
     THEN UsageDict(total, sum_tasks(tl.tasks, "prompt_tokens"),
                    sum_tasks(tl.tasks, "completion_tokens"))
     ELSE NoneValue

\* Method 3: result_dict = crew_output.to_dict()
dict_usage(td) ==
  IF hasattr(td.token_usage) THEN td.token_usage
  ELSE IF hasattr(td.usage_metrics) THEN td.usage_metrics
  ELSE NoneValue

\* extract_token_usage: the if / elif chain over hasattr, inside try / except.
extract_token_usage(o) ==
  IF hasattr(o.token_usage) THEN o.token_usage
  ELSE IF hasattr(o.usage_metrics) THEN o.usage_metrics
  ELSE IF o.to_dict.present THEN dict_usage(o.to_dict)
  ELSE IF o.tasks_output.kind # "absent"
       THEN IF tasks_raise(o.tasks_output) THEN NoneValue   \* except: return None
            ELSE tasks_usage(o.tasks_output)
  ELSE IF o.crew.present /\ hasattr(o.crew.usage_metrics) THEN o.crew.usage_metrics
  ELSE IF hasattr(o._usage) THEN o._usage
  ELSE IF hasattr(o.usage) THEN o.usage
  ELSE NoneValue

(***************************************************************************)
(* serialize_crew_output.                                                  *)
(***************************************************************************)

\* A serialized value: a text (raw, str(crew_output) or result).
Serialized(kind, text) == [kind |-> kind, text |-> text]
NoMcq == Serialized("None", "")

\* A serialized value that is the dictionary crew_output.to_dict() returned.
SerializedDict(view) == [kind |-> "dict", text |-> "", dict |-> view]

\* hasattr(crew_output, '__str__'): every Python object inherits object.__str__.
has_str(o) == TRUE

\* str(crew_output)
str(o) == Serialized("str", o.repr)

\* serialize_crew_output: the if/elif chain, in the order of the code.
serialize_crew_output(o) ==
  IF o.raw.present /\ o.raw.text # "" THEN Serialized("raw", o.raw.text)
  ELSE IF has_str(o) THEN str(o)
  ELSE IF o.result.present THEN Serialized("result", o.result.text)
  ELSE IF o.to_dict.present THEN SerializedDict(o.to_dict)
  ELSE str(o)

\* The outcomes serialize_crew_output is run on: every combination of a raw
\* text (absent, empty, non-empty), a result field, a dictionary view and a
\* usage, with a rendering that is empty for an outcome that renders as its
\* own empty text.
SerializedOutcomes ==
  { Outcome(tu, NoAttr, td, NoTasks, NoCrew, NoAttr, NoAttr, raw, result, repr) :
      tu \in {NoAttr, NoneValue, UsageDict(30, 20, 10)},
      td \in {NoDictView,
              DictView(TRUE, NoAttr, NoAttr),
              DictView(TRUE, UsageDict(32, 22, 10), NoAttr)},
      raw \in {RawView(FALSE, ""), RawView(TRUE, ""), RawView(TRUE, "mcq text")},
      result \in {NoResult, ResultView(TRUE, "result text")},
      repr \in {"", "CrewOutput"} }

(***************************************************************************)
(* The remote compare-text store and the requests sent to it.              *)
(***************************************************************************)

VlmDesc(source, pages) == [source |-> source, pages |-> pages]
Restructured(processed, total) == [processed |-> processed, total_pages |-> total]
\* final_corrected_text: a text with the number formatted into it.
FinalText(text, pages) == [text |-> text, pages |-> pages]

CompareText(id, sid, vlmdesc, restructured, fct, mcq) ==
  [compare_text_id |-> id, script_id |-> sid, vlmdesc |-> vlmdesc,
   restructured |-> restructured, final_corrected_text |-> fct, mcq |-> mcq]

\* A record another part of the system stored for script 1 before any run.
EarlierRecord ==
  CompareText(1, 1, VlmDesc("vlm description", 0), Restructured(FALSE, 0),
              FinalText("corrected text", 0), NoMcq)

NoRecord ==
  CompareText(0, 0, VlmDesc("", 0), Restructured(FALSE, 0), FinalText("", 0), NoMcq)

\* The JSON body of a POST or PUT to /compare-text/: keys names the keys it has.
Payload(keys, id, sid, vlmdesc, restructured, fct, mcq) ==
  [keys |-> keys, compare_text_id |-> id, script_id |-> sid, vlmdesc |-> vlmdesc,
   restructured |-> restructured, final_corrected_text |-> fct, mcq |-> mcq]

\* `vlmdesc or {}`, `restructured or {}`
EmptyVlmDesc == VlmDesc("", 0)
EmptyRestructured == Restructured(FALSE, 0)

\* f"MCQ processing completed for {n} pages"
completed_text(n) == FinalText("MCQ processing completed for pages", n)

\* The data of save_mcq_result as process_script_pages calls it.
save_payload(script_id, mcq_result, pages) ==
  Payload({"script_id", "vlmdesc", "restructured", "final_corrected_text", "mcq"},
          0, script_id, VlmDesc("MCQ processing", pages), Restructured(TRUE, pages),
          completed_text(pages), serialize_crew_output(mcq_result))

\* A faulty update that sends the defaults of a create along with the mcq.
update_payload_with_defaults(compare_text_id, mcq_result) ==
  Payload({"compare_text_id", "mcq", "vlmdesc", "restructured", "final_corrected_text"},
          compare_text_id, 0, EmptyVlmDesc, EmptyRestructured, FinalText("", 0),
          serialize_crew_output(mcq_result))

\* The data of update_existing_mcq_result: compare_text_id and mcq, nothing else.
update_payload(compare_text_id, mcq_result) ==
  Payload({"compare_text_id", "mcq"}, compare_text_id, 0, EmptyVlmDesc,
          EmptyRestructured, FinalText("", 0), serialize_crew_output(mcq_result))

\* The store on POST: a new record with the next compare_text_id.
store_create(records, payload) ==
  Append(records,
         CompareText(Len(records) + 1, payload.script_id, payload.vlmdesc,
                     payload.restructured, payload.final_corrected_text, payload.mcq))

\* The store on PUT: the record of that id takes the fields the payload has.
store_update(records, payload) ==
  [i \in DOMAIN records |->
     IF records[i].compare_text_id # payload.compare_text_id THEN records[i]
     ELSE [records[i] EXCEPT
             !.vlmdesc = IF "vlmdesc" \in payload.keys THEN payload.vlmdesc ELSE @,
             !.restructured =
                IF "restructured" \in payload.keys THEN payload.restructured ELSE @,
             !.final_corrected_text =
                IF "final_corrected_text" \in payload.keys
                THEN payload.final_corrected_text ELSE @,
             !.mcq = IF "mcq" \in payload.keys THEN payload.mcq ELSE @]]

\* The store on GET ?script_id=: the records of that script, in creation order.
store_lookup(records, script_id) ==
  SelectSeq(records, LAMBDA r : r.script_id = script_id)

\* How a request to the store can end: answered, or failed in one of the ways
\* the helpers catch. With "JSONDecodeError" the store did the work and the
\* body of its answer could not be parsed.
WriteOutcomes == {"ok", "ConnectionError", "HTTPError", "JSONDecodeError"}

\* What GET /compare-text/ can come back as: the list of matching records, a
\* failure, or a parsable body of another shape.
LookupAnswers ==
  {"list", "ConnectionError", "HTTPError", "JSONDecodeError",
   "json_object", "json_string"}

\* What check_existing_compare_text returns: None, a record, or whatever data[0] is.
Existing(kind, rec) == [kind |-> kind, rec |-> rec]

\* check_existing_compare_text on an answer of the store.
check_existing_compare_text(answer, matches) ==
  CASE answer \in {"ConnectionError", "HTTPError", "JSONDecodeError"} ->
         Existing("None", NoRecord)                 \* except ...: return None
    [] answer = "list" ->
         IF Len(matches) > 0 THEN Existing("record", matches[1])
         ELSE Existing("None", NoRecord)
    [] answer = "json_object" -> Existing("None", NoRecord)   \* data[0]: KeyError
    [] OTHER -> Existing("char", NoRecord)   \* a JSON string: data[0] is a character

(***************************************************************************)
(* The HTTP layer.                                                         *)
(***************************************************************************)

\* The two request-handling threads of the server (app.run serves each request
\* on a thread of its own).
Handlers == {"h1", "h2"}

ScriptIds == 0..MaxScriptId

\* The body of a POST /run. kind: "missing" (no JSON body), "malformed" (not
\* parsable), "empty_object" ({}), "object" (a non-empty JSON object, with or
\* without the script_id key), "array" (a non-empty JSON array), "number".
Body(kind, has_id, id) == [kind |-> kind, has_script_id |-> has_id, script_id |-> id]
NoBody == Body("none", FALSE, 0)

Bodies ==
  {Body(k, FALSE, 0) : k \in {"missing", "malformed", "empty_object", "object",
                              "array", "number"}}
  \cup {Body("object", TRUE, v) : v \in ScriptIds}

Request(method, id, body) == [method |-> method, path_id |-> id, body |-> body]
NoRequest == Request("", 0, NoBody)

\* GET /run/<int:script_id> (the converter takes the non-negative integers) and
\* POST /run.
Requests ==
  {Request("GET", v, NoBody) : v \in ScriptIds}
  \cup {Request("POST", 0, b) : b \in Bodies}

\* What a route decides before the workflow: status 0 is "run the workflow".
Routed(status, message, script_id) ==
  [status |-> status, message |-> message, script_id |-> script_id]

\* run_pipeline_route up to the call of run_mcq_pipeline.
run_pipeline_route(rq) ==
  IF rq.path_id = 0 THEN Routed(400, "Script ID is required", 0)
  ELSE Routed(0, "", rq.path_id)

\* How request.get_json() ends. A malformed body raises BadRequest; a request
\* without a JSON body gives None or raises, depending on the Flask release.
get_json_outcomes(body) ==
  CASE body.kind = "malformed" -> {"raise"}
    [] body.kind = "missing" -> {"None", "raise"}
    [] OTHER -> {"data"}

\* run_pipeline_post up to the call of run_mcq_pipeline, for an outcome of
\* get_json.
run_pipeline_post(rq, got) ==
  CASE got = "raise" -> Routed(500, "Internal server error", 0)
    [] got = "None" -> Routed(400, "script_id is required in JSON payload", 0)
    [] rq.body.kind = "empty_object" ->
         Routed(400, "script_id is required in JSON payload", 0)
    [] rq.body.kind = "array" ->
         Routed(400, "script_id is required in JSON payload", 0)
    \* 'script_id' in 5 raises TypeError, caught by except Exception
    [] rq.body.kind = "number" -> Routed(500, "Internal server error", 0)
    [] ~rq.body.has_script_id ->
         Routed(400, "script_id is required in JSON payload", 0)
    [] OTHER -> Routed(0, "", rq.body.script_id)

\* The response: the status, the envelope's message and script_id (<<>> when the
\* envelope has none), and what of "data" the claims read.
Response(status, message, script_id, saved, db_error, mcq, usage, total) ==
  [status |-> status, message |-> message, script_id |-> script_id,
   database_saved |-> saved, database_error |-> db_error, mcq_result |-> mcq,
   token_usage |-> usage, total_pages |-> total]
NoResponse == Response(0, "", <<>>, FALSE, "", NoMcq, NoneValue, 0)

\* The 400 / 500 a route answers without a workflow run.
early_response(r) == Response(r.status, r.message, <<>>, FALSE, "", NoMcq, NoneValue, 0)

\* The 500 of a failed run: {"status": "error", "script_id", "message"}.
error_response(script_id, message) ==
  Response(500, message, <<script_id>>, FALSE, "", NoMcq, NoneValue, 0)

(***************************************************************************)
(* The workflow: run_mcq_pipeline and process_script_pages.                *)
(***************************************************************************)

\* The lists GET /ocr/ answers the service with. After the page path the
\* workflow reads only the lengths, so one page number and one payload do.
WorkflowRecords == [page_number : {<<1>>}, ocr_json : {"None", "", "ocr_a"}]
WorkflowLists == SeqsUpTo(WorkflowRecords, MaxPages)

FetchFailures == {"ConnectionError", "HTTPError", "RequestException", "JSONDecodeError"}

\* params of fetch_ocr_data: script_id only `if script_id:`; <<>> asks for the
\* records of every script.
fetch_params(script_id) == IF script_id # 0 THEN <<script_id>> ELSE <<>>

\* The outcomes the pipeline gives the service, by name: one with usage and a
\* raw text, one with neither.
WorkflowOutcomes == {"usage and raw", "bare"}

\* The object a name of WorkflowOutcomes stands for.
crew_result(name) ==
  IF name = "usage and raw"
  THEN Outcome(UsageDict(30, 20, 10), NoAttr, NoDictView, NoTasks, NoCrew, NoAttr,
               NoAttr, RawView(TRUE, "mcq text"), NoResult, "CrewOutput")
  ELSE Outcome(NoAttr, NoAttr, NoDictView, NoTasks, NoCrew, NoAttr, NoAttr,
               RawView(TRUE, ""), NoResult, "rendered CrewOutput")

\* The locals of a run; result names the outcome the pipeline returned. fetched ("none" | "failed" | "list"), usable (how many
\* fetched records have a truthy ocr_json) and lookup_failed (the lookup was
\* answered with anything but the list of matching records) record what the
\* remote services answered; the rest are the variables of the code.
Locals(script_id, params, total, pages, calls, result, usage, existing) ==
  [script_id |-> script_id, fetch_params |-> params, total |-> total,
   pages |-> pages, calls |-> calls, result |-> result, token_usage |-> usage,
   existing |-> existing, fetched |-> "none", usable |-> 0, lookup_failed |-> FALSE]
NoLocals == Locals(0, <<>>, 0, 0, 0, "", NoneValue, Existing("None", NoRecord))

\* A request sent to the store and how it ended.
WriteRequest(method, payload, outcome) ==
  [method |-> method, payload |-> payload, outcome |-> outcome]

\* `if existing_record:`
existing_truthy(e) == e.kind # "None"

\* The branch process_script_pages takes: `if existing_record:` then
\* existing_record['compare_text_id'], which raises unless it is a record with
\* that key; `else:` the create.
write_branch(e) ==
  IF existing_truthy(e)
  THEN IF e.kind = "record" THEN "update" ELSE "raise"
  ELSE "create"

\* A faulty handler that lets a failed write escape as a failed run.
db_error_response_raises(l, outcome) ==
  error_response(l.script_id, "An error occurred while processing script pages")

\* The result of process_script_pages after `except Exception as db_error`, as
\* the route answers it: 200, database_saved False, the error recorded.
db_error_response(l, outcome) ==
  Response(200, "MCQ processing completed successfully", <<l.script_id>>, FALSE,
           outcome, serialize_crew_output(crew_result(l.result)), l.token_usage, l.total)

\* The result of process_script_pages after a write that succeeded.
saved_response(l) ==
  Response(200, "MCQ processing completed successfully", <<l.script_id>>, TRUE,
           "", serialize_crew_output(crew_result(l.result)), l.token_usage, l.total)

InitService ==
  /\ store \in {<<>>, <<EarlierRecord>>}
  /\ pc = [h \in Handlers |-> "idle"]
  /\ request = [h \in Handlers |-> NoRequest]
  /\ local = [h \in Handlers |-> NoLocals]
  /\ kickoffs = [h \in Handlers |-> 0]
  /\ existed = [h \in Handlers |-> FALSE]
  /\ writes = [h \in Handlers |-> <<>>]
  /\ resp = [h \in Handlers |-> NoResponse]

\* The service at rest, for the specifications of the pure parts.
IdleService ==
  /\ store = <<>>
  /\ pc = [h \in Handlers |-> "done"]
  /\ request = [h \in Handlers |-> NoRequest]
  /\ local = [h \in Handlers |-> NoLocals]
  /\ kickoffs = [h \in Handlers |-> 0]
  /\ existed = [h \in Handlers |-> FALSE]
  /\ writes = [h \in Handlers |-> <<>>]
  /\ resp = [h \in Handlers |-> NoResponse]

\* A request arrives and its route runs up to the call of run_mcq_pipeline.
Receive(h) ==
  /\ pc[h] = "idle"
  /\ \E rq \in Requests :
       \E got \in (IF rq.method = "POST" THEN get_json_outcomes(rq.body) ELSE {"data"}) :
         LET r == IF rq.method = "GET" THEN run_pipeline_route(rq)
                  ELSE run_pipeline_post(rq, got)
         IN /\ request' = [request EXCEPT ![h] = rq]
            /\ IF r.status = 0
               THEN /\ pc' = [pc EXCEPT ![h] = "fetch"]
                    /\ local' = [local EXCEPT ![h].script_id = r.script_id]
                    /\ UNCHANGED resp
               ELSE /\ pc' = [pc EXCEPT ![h] = "done"]
                    /\ resp' = [resp EXCEPT ![h] = early_response(r)]
                    /\ UNCHANGED local
  /\ UNCHANGED <<store, kickoffs, existed, writes>>
  /\ UNCHANGED pure_vars

\* run_mcq_pipeline: fetch_ocr_data, the empty check, the sort, and
\* process_script_pages up to the pipeline call.
Fetch(h) ==
  /\ pc[h] = "fetch"
  /\ LET sid == local[h].script_id
         params == fetch_params(sid)
     IN \/ \E failure \in FetchFailures :
             /\ resp' = [resp EXCEPT ![h] = error_response(sid, "Error processing script ID")]
             /\ local' = [local EXCEPT ![h].fetch_params = params,
                                       ![h].fetched = "failed"]
             /\ pc' = [pc EXCEPT ![h] = "done"]
        \/ \E data \in WorkflowLists :
             LET path == page_path(data)
             IN /\ local' = [local EXCEPT ![h].fetch_params = params,
                                          ![h].fetched = "list",
                                          ![h].usable = Cardinality(
                                             {i \in 1..Len(data) :
                                                data[i].ocr_json \notin {"None", ""}}),
                                          ![h].total = path.total,
                                          ![h].pages = path.pages,
                                          ![h].calls = Len(path.calls)]
                /\ IF path.error # ""
                   THEN /\ resp' = [resp EXCEPT ![h] = error_response(sid, path.error)]
                        /\ pc' = [pc EXCEPT ![h] = "done"]
                   ELSE /\ pc' = [pc EXCEPT ![h] = "kickoff"]
                        /\ UNCHANGED resp
  /\ UNCHANGED <<store, request, kickoffs, existed, writes>>
  /\ UNCHANGED pure_vars

\* Mcq().crew().kickoff(inputs=inputs) and extract_token_usage(result).
Kickoff(h) ==
  /\ pc[h] = "kickoff"
  /\ kickoffs' = [kickoffs EXCEPT ![h] = @ + local[h].calls]
  /\ \/ /\ resp' = [resp EXCEPT ![h] =
                      error_response(local[h].script_id,
                                     "An error occurred while processing script pages")]
        /\ pc' = [pc EXCEPT ![h] = "done"]
        /\ UNCHANGED local
     \/ \E result \in WorkflowOutcomes :
          /\ local' = [local EXCEPT ![h].result = result,
                                    ![h].token_usage =
                                       extract_token_usage(crew_result(result))]
          /\ pc' = [pc EXCEPT ![h] = "lookup"]
          /\ UNCHANGED resp
  /\ UNCHANGED <<store, request, existed, writes>>
  /\ UNCHANGED pure_vars

\* existing_record = check_existing_compare_text(script_id)
Lookup(h) ==
  /\ pc[h] = "lookup"
  /\ LET matches == store_lookup(store, local[h].script_id)
     IN /\ existed' = [existed EXCEPT ![h] = Len(matches) > 0]
        /\ \E answer \in LookupAnswers :
             local' = [local EXCEPT ![h].existing =
                                      check_existing_compare_text(answer, matches),
                                    ![h].lookup_failed = answer # "list"]
  /\ pc' = [pc EXCEPT ![h] = "write"]
  /\ UNCHANGED <<store, request, kickoffs, writes, resp>>
  /\ UNCHANGED pure_vars

\* The rest of process_script_pages: update or create, and the result; then the
\* route's answer.
Write(h) ==
  /\ pc[h] = "write"
  /\ LET l == local[h]
         branch == write_branch(l.existing)
     IN IF branch = "raise"
        THEN \* existing_record['compare_text_id'] raises: no request is sent
             /\ resp' = [resp EXCEPT ![h] = db_error_response(l, "TypeError or KeyError")]
             /\ UNCHANGED <<store, writes>>
        ELSE \E outcome \in WriteOutcomes :
               LET update == branch = "update"
                   payload == IF update
                              THEN update_payload(l.existing.rec.compare_text_id,
                                                  crew_result(l.result))
                              ELSE save_payload(l.script_id, crew_result(l.result), l.pages)
                   done == outcome \in {"ok", "JSONDecodeError"}
               IN /\ writes' = [writes EXCEPT ![h] =
                       Append(@, WriteRequest(IF update THEN "PUT" ELSE "POST",
                                              payload, outcome))]
                  /\ store' = IF ~done THEN store
                              ELSE IF update THEN store_update(store, payload)
                              ELSE store_create(store, payload)
                  /\ resp' = [resp EXCEPT ![h] =
                       IF outcome = "ok" THEN saved_response(l)
                       ELSE db_error_response(l, outcome)]
  /\ pc' = [pc EXCEPT ![h] = "done"]
  /\ UNCHANGED <<request, local, kickoffs, existed>>
  /\ UNCHANGED pure_vars

(***************************************************************************)
(* The page path alone: one fetched list, taken to the pipeline call.      *)
(***************************************************************************)

InitPure ==
  /\ script_data = <<>>
  /\ pages_pc = "done"
  /\ kickoff_calls = <<>>
  /\ pages_error = ""
  /\ crew_output = Outcome(NoAttr, NoAttr, NoDictView, NoTasks, NoCrew, NoAttr,
                           NoAttr, RawView(FALSE, ""), NoResult, "CrewOutput")
  /\ usage_pc = "returned"
  /\ extracted = NoneValue
  /\ serialize_pc = "returned"
  /\ serialized = NoMcq

InitPages ==
  /\ script_data \in OcrLists
  /\ pages_pc = "fetched"
  /\ kickoff_calls = <<>>
  /\ pages_error = ""
  /\ crew_output = Outcome(NoAttr, NoAttr, NoDictView, NoTasks, NoCrew, NoAttr,
                           NoAttr, RawView(FALSE, ""), NoResult, "CrewOutput")
  /\ usage_pc = "returned"
  /\ extracted = NoneValue
  /\ serialize_pc = "returned"
  /\ serialized = NoMcq
  /\ IdleService

RunPages ==
  /\ pages_pc = "fetched"
  /\ LET path == page_path(script_data)
     IN /\ kickoff_calls' = kickoff_calls \o path.calls
        /\ pages_error' = path.error
  /\ pages_pc' = "done"
  /\ UNCHANGED <<script_data, crew_output, usage_pc, extracted, serialize_pc,
                 serialized>>
  /\ UNCHANGED service_vars

SpecPages == InitPages /\ [][RunPages]_vars

(***************************************************************************)
(* extract_token_usage alone: one outcome, probed once.                    *)
(***************************************************************************)

InitUsage ==
  /\ script_data = <<>>
  /\ pages_pc = "done"
  /\ kickoff_calls = <<>>
  /\ pages_error = ""
  /\ crew_output \in ProbedOutcomes
  /\ usage_pc = "call"
  /\ extracted = NoneValue
  /\ serialize_pc = "returned"
  /\ serialized = NoMcq
  /\ IdleService

ExtractUsage ==
  /\ usage_pc = "call"
  /\ extracted' = extract_token_usage(crew_output)
  /\ usage_pc' = "returned"
  /\ UNCHANGED <<script_data, pages_pc, kickoff_calls, pages_error, crew_output,
                 serialize_pc, serialized>>
  /\ UNCHANGED service_vars

SpecUsage == InitUsage /\ [][ExtractUsage]_vars

(***************************************************************************)
(* serialize_crew_output alone: one outcome, serialized once.              *)
(***************************************************************************)

InitSerialize ==
  /\ script_data = <<>>
  /\ pages_pc = "done"
  /\ kickoff_calls = <<>>
  /\ pages_error = ""
  /\ crew_output \in SerializedOutcomes
  /\ usage_pc = "call"
  /\ extracted = NoneValue
  /\ serialize_pc = "call"
  /\ serialized = NoMcq
  /\ IdleService

\* serialize_crew_output(crew_output): the usage is extracted (and logged)
\* first, then the outcome is serialized.
Serialize ==
  /\ serialize_pc = "call"
  /\ extracted' = extract_token_usage(crew_output)
  /\ usage_pc' = "returned"
  /\ serialized' = serialize_crew_output(crew_output)
  /\ serialize_pc' = "returned"
  /\ UNCHANGED <<script_data, pages_pc, kickoff_calls, pages_error, crew_output>>
  /\ UNCHANGED service_vars

SpecSerialize == InitSerialize /\ [][Serialize]_vars

(***************************************************************************)
(* The service.                                                            *)
(***************************************************************************)

Init == InitPure /\ InitService

Next == \E h \in Handlers : Receive(h) \/ Fetch(h) \/ Kickoff(h) \/ Lookup(h) \/ Write(h)

Spec == Init /\ [][Next]_vars

(***************************************************************************)
(* Properties.                                                             *)
(***************************************************************************)

\* The fetched records with a truthy ocr_json, by position in the fetched list.
UsableAt(data) == {i \in 1..Len(data) : data[i].ocr_json \notin {"None", ""}}

\* The place of record i in the batch: after every usable record of smaller
\* page number, and after the earlier usable records of equal page number.
BatchRank(data, i) ==
  1 + Cardinality({j \in UsableAt(data) :
                     \/ sort_key(data[j]) < sort_key(data[i])
                     \/ sort_key(data[j]) = sort_key(data[i]) /\ j < i})

\* C1: a fetch result with at least one record that has ocr_json leads to
\* exactly one pipeline call, whatever the number of pages, and its input is
\* every fetched record with ocr_json, ascending by page_number, ties in fetched
\* order.
C1_OneCallWholeBatch ==
  (pages_pc = "done" /\ UsableAt(script_data) # {}) =>
     /\ Len(kickoff_calls) = 1
     /\ Len(kickoff_calls[1]) = Cardinality(UsableAt(script_data))
     /\ \A i \in UsableAt(script_data) :
          kickoff_calls[1][BatchRank(script_data, i)] = page_data(script_data[i])

\* C1's case: two usable pages fetched out of order, and two of equal page
\* number with different payloads, each sent in one call.
C1_Witness ==
  /\ pages_pc = "done"
  /\ Len(kickoff_calls) = 1
  /\ Len(script_data) = 2
  /\ UsableAt(script_data) = {1, 2}
  /\ script_data[1].ocr_json # script_data[2].ocr_json
  /\ sort_key(script_data[1]) >= sort_key(script_data[2])

RequestsOf(h, method) ==
  {i \in 1..Len(writes[h]) : writes[h][i].method = method}

\* C2 as claimed: whenever the store holds a record of the script at lookup
\* time, the run sends an update and no create.
C2_UpdateWheneverRecordExists ==
  \A h \in Handlers :
    (pc[h] = "done" /\ existed[h]) =>
       /\ RequestsOf(h, "PUT") # {}
       /\ RequestsOf(h, "POST") = {}

\* C2 amended: when the lookup returns an existing record, the run sends one
\* update of that record and no create, the update carries compare_text_id and
\* mcq only, and the record's vlmdesc, restructured and final_corrected_text
\* are afterwards what the lookup saw.
C2_UpdateLeavesOtherFields ==
  \A h \in Handlers :
    (pc[h] = "done" /\ local[h].existing.kind = "record") =>
       LET seen == local[h].existing.rec
       IN /\ Len(writes[h]) = 1
          /\ writes[h][1].method = "PUT"
          /\ writes[h][1].payload.keys = {"compare_text_id", "mcq"}
          /\ writes[h][1].payload.compare_text_id = seen.compare_text_id
          /\ writes[h][1].payload.mcq = serialize_crew_output(crew_result(local[h].result))
          /\ \E i \in DOMAIN store :
               /\ store[i].compare_text_id = seen.compare_text_id
               /\ store[i].script_id = seen.script_id
               /\ store[i].vlmdesc = seen.vlmdesc
               /\ store[i].restructured = seen.restructured
               /\ store[i].final_corrected_text = seen.final_corrected_text
               /\ (\A g \in Handlers : pc[g] = "done") /\ writes[h][1].outcome = "ok"
                    /\ (\A g \in Handlers \ {h} : RequestsOf(g, "PUT") = {})
                    => store[i].mcq = writes[h][1].payload.mcq

\* C2's case: an update of the record stored earlier went through and replaced
\* its mcq.
C2_Witness ==
  \E h \in Handlers :
    /\ pc[h] = "done"
    /\ local[h].existing.kind = "record"
    /\ local[h].existing.rec = EarlierRecord
    /\ writes[h][1].outcome = "ok"
    /\ store[1].mcq = serialize_crew_output(crew_result(local[h].result))
    /\ store[1].vlmdesc = EarlierRecord.vlmdesc

\* C3 as claimed: when the store holds no record of the script at lookup time,
\* a run that got as far as the lookup sends a create and no update, and the
\* create's final_corrected_text carries the number of records that had
\* ocr_json.
C3_CreateWhenNoRecord ==
  \A h \in Handlers :
    (pc[h] = "done" /\ resp[h].status = 200 /\ ~existed[h]) =>
       /\ Len(writes[h]) = 1
       /\ writes[h][1].method = "POST"
       /\ writes[h][1].payload.final_corrected_text = completed_text(local[h].usable)

\* What does hold of the create: a run whose lookup returned absent sends one
\* create and no update, and its final_corrected_text carries the number of
\* records that had ocr_json.
CreateAfterAbsentLookup ==
  \A h \in Handlers :
    (pc[h] = "done" /\ resp[h].status = 200 /\ local[h].existing.kind = "None") =>
       /\ Len(writes[h]) = 1
       /\ writes[h][1].method = "POST"
       /\ writes[h][1].payload.script_id = local[h].script_id
       /\ writes[h][1].payload.final_corrected_text = completed_text(local[h].usable)

\* C4: when the pipeline succeeded and the create or update failed, the run
\* is a success: 200, database_saved false, database_error set, the serialized
\* result and the usage kept.
C4_WriteFailureIsSuccess ==
  \A h \in Handlers :
    (pc[h] = "done" /\ writes[h] # <<>> /\ writes[h][Len(writes[h])].outcome # "ok") =>
       /\ resp[h].status = 200
       /\ resp[h].database_saved = FALSE
       /\ resp[h].database_error # ""
       /\ resp[h].mcq_result = writes[h][Len(writes[h])].payload.mcq
       /\ resp[h].mcq_result.kind # "None"
       /\ resp[h].token_usage = local[h].token_usage
       /\ resp[h].script_id = <<local[h].script_id>>

\* C4's case: a create that failed with an HTTP error and an update that could
\* not connect, each answered 200.
C4_Witness ==
  \E h, g \in Handlers :
    /\ pc[h] = "done" /\ writes[h] # <<>>
    /\ writes[h][1].method = "POST" /\ writes[h][1].outcome = "HTTPError"
    /\ resp[h].status = 200 /\ truthy(resp[h].token_usage)
    /\ pc[g] = "done" /\ writes[g] # <<>>
    /\ writes[g][1].method = "PUT" /\ writes[g][1].outcome = "ConnectionError"
    /\ resp[g].status = 200

\* C5 as claimed, in the case it names: once the runs are over, the store
\* holds at most one record per script_id, also after two concurrent runs for
\* one script, both started when it had no record, whose lookups the store
\* answered.
C5_AtMostOneRecordPerScript ==
  (\A h \in Handlers : pc[h] = "done" /\ ~local[h].lookup_failed) =>
     \A sid \in ScriptIds :
       Cardinality({i \in DOMAIN store : store[i].script_id = sid}) <= 1

\* C6: a run whose fetch gave no usable input (an empty list, or records that
\* all lack ocr_json) fails with a no-data error and 500, without a pipeline
\* call and without a write.
C6_NoDataFails ==
  \A h \in Handlers :
    (local[h].fetched = "list" /\ local[h].usable = 0) =>
       /\ pc[h] = "done"
       /\ resp[h].status = 500
       /\ resp[h].message \in {"No OCR data found", "No valid OCR data found in any page"}
       /\ resp[h].message = "No OCR data found" <=> local[h].total = 0
       /\ kickoffs[h] = 0
       /\ writes[h] = <<>>

\* C6's case: one run fetched an empty list, the other records without ocr_json.
C6_Witness ==
  \E h, g \in Handlers :
    /\ pc[h] = "done" /\ local[h].fetched = "list" /\ local[h].total = 0
    /\ pc[g] = "done" /\ local[g].fetched = "list" /\ local[g].total = MaxPages
    /\ local[g].usable = 0

\* C7 as claimed: whenever the lookup is answered with a failure or a body of
\* another shape, it returns absent, and the run goes on to a create and a 200.
C7_LookupFailureMeansCreate ==
  \A h \in Handlers :
    (pc[h] \in {"write", "done"} /\ local[h].lookup_failed) =>
       /\ local[h].existing.kind = "None"
       /\ pc[h] = "done" =>
            /\ resp[h].status = 200
            /\ Len(writes[h]) = 1
            /\ writes[h][1].method = "POST"

\* What does hold of the lookup: a lookup that returned absent although the
\* store held a record of the script is followed by a create.
AbsentLookupCreatesBesideRecord ==
  \A h \in Handlers :
    (pc[h] = "done" /\ existed[h] /\ local[h].existing.kind = "None") =>
       /\ local[h].lookup_failed
       /\ resp[h].status = 200
       /\ RequestsOf(h, "POST") = {1}

\* The script_id a request names: the path's for GET, the body's for POST.
NamesScript(rq) ==
  \/ rq.method = "GET"
  \/ rq.method = "POST" /\ rq.body.kind = "object" /\ rq.body.has_script_id
NamedScript(rq) == IF rq.method = "GET" THEN rq.path_id ELSE rq.body.script_id

\* C8 as claimed: GET /run/v and POST /run {script_id: v} answer alike: 400
\* without a run when v is 0, otherwise the run of script v with 200 or 500.
C8_PostLikeGet ==
  \A h \in Handlers :
    (pc[h] = "done" /\ NamesScript(request[h])) =>
       IF NamedScript(request[h]) = 0
       THEN resp[h].status = 400 /\ local[h].fetched = "none"
       ELSE /\ resp[h].status \in {200, 500}
            /\ local[h].fetch_params = <<NamedScript(request[h])>>

\* C9 as claimed: a POST /run whose body is malformed, missing or without the
\* script_id key is answered 400 and runs no workflow.
C9_BadBodyIs400 ==
  \A h \in Handlers :
    (pc[h] = "done" /\ request[h].method = "POST" /\ ~NamesScript(request[h])) =>
       resp[h].status = 400 /\ local[h].fetched = "none"

\* The usage views of an outcome in the priority order of the claim; NoAttr
\* where the outcome has no such view.
UsageViews(o) ==
  << o.token_usage, o.usage_metrics,
     IF o.to_dict.present THEN dict_usage(o.to_dict) ELSE NoAttr,
     IF o.tasks_output.kind = "list" /\ ~tasks_raise(o.tasks_output)
       THEN tasks_usage(o.tasks_output) ELSE NoAttr,
     IF o.crew.present THEN o.crew.usage_metrics ELSE NoAttr,
     o._usage, o.usage >>

\* C10 as claimed: extract_token_usage returns the first non-empty view in
\* priority order, and an empty value only when no view is non-empty.
C10_FirstNonEmptyView ==
  usage_pc = "returned" =>
     LET views == UsageViews(crew_output)
         hits == {i \in 1..Len(views) : truthy(views[i])}
     IN IF hits = {} THEN ~truthy(extracted)
        ELSE extracted = views[CHOOSE i \in hits : \A j \in hits : i <= j]

\* The views serialize_crew_output recognizes on an outcome.
HasRawText(o) == o.raw.present /\ o.raw.text # ""
OnlyDictView(o) == o.to_dict.present /\ ~HasRawText(o) /\ ~o.result.present
NoRecognizedView(o) == ~o.to_dict.present /\ ~HasRawText(o) /\ ~o.result.present

\* C11 as claimed: serialize_crew_output returns the dictionary itself for an
\* outcome that exposes only a dictionary view (no non-empty raw text, no
\* result field), and a non-empty text for an outcome with no recognized
\* view; it returns a value (never raises) for every outcome.
C11_DictViewReturnedAsDict ==
  serialize_pc = "returned" =>
     /\ serialized.kind \in {"raw", "str", "result", "dict"}
     /\ OnlyDictView(crew_output) =>
           serialized = SerializedDict(crew_output.to_dict)
     /\ NoRecognizedView(crew_output) =>
           serialized.kind \in {"raw", "str", "result"} /\ serialized.text # ""

\* What the code does instead: the non-empty raw text when there is one, and
\* otherwise str(crew_output), whatever other views the outcome exposes.
RawElseStr ==
  serialize_pc = "returned" =>
     serialized = IF HasRawText(crew_output)
                    THEN Serialized("raw", crew_output.raw.text)
                    ELSE Serialized("str", crew_output.repr)

====
